---- MODULE Spec2Model ----
(***************************************************************************)
(* FinDev-Backend, app/main.py: the lifespan of the FastAPI application    *)
(* (connection bootstrap and shutdown), the /health endpoint, and the      *)
(* endpoints that obtain a crawler session from the SessionManager.        *)
(*                                                                         *)
(* Library calls (redis.Redis, ping, psycopg.connect, cursor/execute,      *)
(* close, the session constructor) are black boxes of main.py: each one    *)
(* either returns or raises, and the outcome is an input of the action.    *)
(* SessionManager itself is imported from ashare_core.tool; its            *)
(* create_or_get is modelled from the specification (section 4.1).         *)
(***************************************************************************)
EXTENDS Integers, Sequences, FiniteSets, TLC

\* ------------------------------------------------------------------ bounds
MaxCalls == 3      \* create_or_get calls recorded in one behaviour
MaxChecks == 2     \* health_check calls in one behaviour
MaxTicks == 2      \* clock advances in one behaviour
TickStep == 1800   \* seconds added by one clock advance

\* ------------------------------------------------------- program constants
max_retries == 10  \* main.py:27
delay == 2         \* main.py:28
SESSION_TTL == 3600 \* main.py:51, SessionManager(3600)

\* ------------------------------------------------------------------ values
\* Python objects are records [kind, id]; None is the 'unavailable' sentinel.
None == [kind |-> "None", id |-> 0]
Unbound == [kind |-> "unbound", id |-> 0]
RedisObj == [kind |-> "redis", id |-> 1]
PgConn(i) == [kind |-> "pg_conn", id |-> i]
PgError(i) == [kind |-> "error", id |-> i]

\* Truth value of an object in `if redis_client:` / `if pg_conn:`.
TruthyMutant(h) == TRUE
Truthy(h) == h.kind \in {"redis", "pg_conn", "error"}

IsLive(h) == h.kind \in {"redis", "pg_conn"}

\* The endpoints that ask the session manager for a session, with the
\* arguments each passes to create_or_get ("unset" = argument not passed).
CallSites ==
  { [fn |-> "crawl_em_stock_history_rank", module |-> "em_guba",
     cls |-> "Session", use_http |-> "False", check |-> "unset"],
    [fn |-> "crawl_jyhf_theme", module |-> "jyhf_app",
     cls |-> "Session", use_http |-> "False", check |-> "unset"],
    [fn |-> "crawl_jyhf_theme_detail", module |-> "jyhf_app",
     cls |-> "Session", use_http |-> "False", check |-> "json"] }

SessionKey(site) == <<site.module, site.cls>>

Keys == { SessionKey(s) : s \in CallSites }

NoHandle == [id |-> 0, use_http |-> "unset", check |-> "unset"]
NoEntry == [present |-> FALSE, handle |-> NoHandle, ts |-> 0]

VARIABLES
  pc,             \* position of lifespan
  redis_client,   \* local of lifespan
  pg_conn,        \* local of lifespan
  attempt_log,    \* outcomes of psycopg.connect, in order
  last_err,       \* local of get_postgres_connection
  sleeps,         \* number of time.sleep(delay) calls
  raised,         \* what lifespan raised: "none", "startup", "shutdown"
  app_state,      \* app.state
  report,         \* last /health response, with the probes it issued
  checks,         \* number of /health calls
  closes,         \* close() calls issued at shutdown and their outcomes
  sessions,       \* mapping of the session manager
  next_id,        \* identity of the next constructed session
  calls,          \* history of create_or_get calls
  now,            \* time.time()
  ticks,
  retry_option    \* retry count given in the environment, 0 when not given

vars == <<pc, redis_client, pg_conn, attempt_log, last_err, sleeps, raised,
          app_state, report, checks, closes, sessions, next_id, calls, now,
          ticks, retry_option>>

bootVars == <<redis_client, pg_conn, attempt_log, last_err, sleeps,
              retry_option>>
sessVars == <<sessions, next_id, calls>>

NoReport == [status |-> "none",
             services |-> [redis |-> "none", postgres |-> "none"],
             probes |-> [redis |-> "none", postgres |-> "none"]]

\* The state of the process before lifespan runs, whatever the environment.
Start ==
  /\ pc = "init"
  /\ redis_client = Unbound
  /\ pg_conn = Unbound
  /\ attempt_log = <<>>
  /\ last_err = None
  /\ sleeps = 0
  /\ raised = "none"
  /\ app_state = [redis_client |-> Unbound, pg_conn |-> Unbound,
                  session_manager |-> FALSE]
  /\ report = NoReport
  /\ checks = 0
  /\ closes = [redis |-> "none", postgres |-> "none"]
  /\ sessions = [k \in Keys |-> NoEntry]
  /\ next_id = 1
  /\ calls = <<>>
  /\ now = 0
  /\ ticks = 0

\* Nothing about retries is given in the environment.
Init == Start /\ retry_option = 0

\* Retry counts an operator may give; main.py reads none of them (lines
\* 27 and 33-37: only the POSTGRES_* connection options are read).
RetryOptions == {0, 3, 12}

InitConfigured == Start /\ retry_option \in RetryOptions

\* ------------------------------------------------------------- lifespan
\* Lines 49-51: build the redis client, pg_conn = None, build the session
\* manager.  These statements stand before the first try of lifespan, so an
\* exception of redis.Redis(...) leaves lifespan.
lifespan_init(built) ==
  /\ pc = "init"
  /\ IF built
       THEN /\ redis_client' = RedisObj
            /\ pg_conn' = None
            /\ pc' = "ping"
            /\ raised' = raised
       ELSE /\ pc' = "crashed"
            /\ raised' = "startup"
            /\ UNCHANGED <<redis_client, pg_conn>>
  /\ UNCHANGED <<attempt_log, last_err, sleeps, app_state, report, checks,
                 closes, sessVars, now, ticks, retry_option>>

\* Line 57: the handler of the ping failure.
RedisExceptHandler(client) == None

\* Lines 52-57: try: redis_client.ping() except Exception: redis_client = None
lifespan_ping(pong) ==
  /\ pc = "ping"
  /\ redis_client' = IF pong THEN redis_client
                     ELSE RedisExceptHandler(redis_client)
  /\ pc' = "pg"
  /\ UNCHANGED <<pg_conn, attempt_log, last_err, sleeps, raised, app_state,
                 report, checks, closes, sessVars, now, ticks, retry_option>>

\* Line 30: for i in range(max_retries), n attempts made so far.
LoopContinuesMutant(n) == n < max_retries + 1
LoopContinues(n) == n < max_retries

\* Line 32: a successful psycopg.connect returns from the function.
AfterAttemptMutant(connected) == "pg"
AfterAttempt(connected) == IF connected THEN "mount" ELSE "pg"

\* Lines 30-43 and 60: one iteration of the retry loop.
pg_attempt(connected) ==
  /\ pc = "pg"
  /\ LoopContinues(Len(attempt_log))
  /\ LET i == Len(attempt_log) + 1 IN
       /\ attempt_log' = Append(attempt_log, connected)
       /\ IF connected
            THEN /\ pg_conn' = PgConn(i)
                 /\ UNCHANGED <<last_err, sleeps>>
            ELSE /\ last_err' = PgError(i)
                 /\ sleeps' = sleeps + 1
                 /\ pg_conn' = pg_conn
       /\ pc' = AfterAttempt(connected)
  /\ UNCHANGED <<redis_client, raised, app_state, report, checks, closes,
                 sessVars, now, ticks, retry_option>>

\* Line 63: the handler of the exception of get_postgres_connection.
PgExceptHandlerMutant(e) == e
PgExceptHandler(e) == None

\* Lines 44 and 61-63: the loop is over, raise last_err, caught by lifespan.
pg_exhausted ==
  /\ pc = "pg"
  /\ ~LoopContinues(Len(attempt_log))
  /\ pg_conn' = PgExceptHandler(last_err)
  /\ pc' = "mount"
  /\ UNCHANGED <<redis_client, attempt_log, last_err, sleeps, raised,
                 app_state, report, checks, closes, sessVars, now, ticks,
                 retry_option>>

\* Lines 65-68 without line 67.
lifespan_mountMutant ==
  /\ pc = "mount"
  /\ app_state' = [redis_client |-> redis_client, pg_conn |-> pg_conn,
                   session_manager |-> FALSE]
  /\ pc' = "serving"
  /\ UNCHANGED <<redis_client, pg_conn, attempt_log, last_err, sleeps,
                 retry_option, raised, report, checks, closes, sessions,
                 next_id, calls, now, ticks>>

\* Lines 65-68: publish the handles on app.state and yield.
lifespan_mount ==
  /\ pc = "mount"
  /\ app_state' = [redis_client |-> redis_client, pg_conn |-> pg_conn,
                   session_manager |-> TRUE]
  /\ pc' = "serving"
  /\ UNCHANGED <<bootVars, raised, report, checks, closes, sessVars, now,
                 ticks>>

\* Lines 73-74 and 78-79: except Exception: pass.
CloseSwallowedMutant(closed) == closed
CloseSwallowed(closed) == TRUE

\* Lines 70-74: close the redis client after the yield.
shutdown_redis(closed) ==
  /\ pc = "serving"
  /\ IF Truthy(redis_client)
       THEN /\ closes' = [closes EXCEPT !.redis =
                            IF closed THEN "closed" ELSE "failed"]
            /\ IF CloseSwallowed(closed)
                 THEN pc' = "close_pg" /\ raised' = raised
                 ELSE pc' = "crashed" /\ raised' = "shutdown"
       ELSE /\ closes' = closes
            /\ pc' = "close_pg"
            /\ raised' = raised
  /\ UNCHANGED <<bootVars, app_state, report, checks, sessVars, now, ticks>>

\* Lines 75-79: close the PostgreSQL connection.
shutdown_pg(closed) ==
  /\ pc = "close_pg"
  /\ IF Truthy(pg_conn)
       THEN /\ closes' = [closes EXCEPT !.postgres =
                            IF closed THEN "closed" ELSE "failed"]
            /\ IF CloseSwallowed(closed)
                 THEN pc' = "done" /\ raised' = raised
                 ELSE pc' = "crashed" /\ raised' = "shutdown"
       ELSE /\ closes' = closes
            /\ pc' = "done"
            /\ raised' = raised
  /\ UNCHANGED <<bootVars, app_state, report, checks, sessVars, now, ticks>>

\* --------------------------------------------------------------- /health
\* Lines 104-109 and 111-117: a service is ok when its handle is truthy and
\* the probe returned; the exception of a failed probe is passed over.
ProbeOkMutant(handle, answered) == answered
ProbeOk(handle, answered) == Truthy(handle) /\ answered

ProbeIssuedMutant(handle, answered) == IF answered THEN "ok" ELSE "raised"
ProbeIssued(handle, answered) ==
  IF Truthy(handle) THEN (IF answered THEN "ok" ELSE "raised") ELSE "none"

\* Line 119.
HealthStatusMutant(redis_ok, pg_ok) ==
  IF redis_ok \/ pg_ok THEN "healthy" ELSE "unhealthy"
HealthStatus(redis_ok, pg_ok) ==
  IF redis_ok /\ pg_ok THEN "healthy" ELSE "unhealthy"

\* Lines 121-122.
UpDown(ok) == IF ok THEN "up" ELSE "down"

\* Lines 85-86.
get_services == <<app_state.redis_client, app_state.pg_conn>>

\* Lines 108-109 and 116-117: except Exception: pass.
ProbeSwallowedMutant(answered) == answered
ProbeSwallowed(answered) == TRUE

\* The response of an endpoint whose handler raised.
ErrorReport(p1, p2) ==
  [status |-> "error", services |-> [redis |-> "none", postgres |-> "none"],
   probes |-> [redis |-> p1, postgres |-> p2]]

\* Lines 98-124 hold no assignment to request.app.state: the handles stay
\* as mounted whatever the probes p1 and p2 gave.
StateAfterHealthMutant(state, p1, p2) ==
  [state EXCEPT !.redis_client = IF p1 = "raised" THEN None ELSE @,
                !.pg_conn = IF p2 = "raised" THEN None ELSE @]
StateAfterHealth(state, p1, p2) == state

\* Lines 98-124.
health_check(pong, selected) ==
  /\ pc = "serving"
  /\ checks < MaxChecks
  /\ LET services == get_services
         redis_ok == ProbeOk(services[1], pong)
         pg_ok == ProbeOk(services[2], selected)
         p1 == ProbeIssued(services[1], pong)
         p2 == ProbeIssued(services[2], selected)
     IN /\ app_state' = StateAfterHealth(app_state, p1, p2)
        /\ report' =
          IF p1 = "raised" /\ ~ProbeSwallowed(pong)
            THEN ErrorReport(p1, "none")
          ELSE IF p2 = "raised" /\ ~ProbeSwallowed(selected)
            THEN ErrorReport(p1, p2)
          ELSE [status |-> HealthStatus(redis_ok, pg_ok),
                services |-> [redis |-> UpDown(redis_ok),
                              postgres |-> UpDown(pg_ok)],
                probes |-> [redis |-> p1, postgres |-> p2]]
  /\ checks' = checks + 1
  /\ UNCHANGED <<pc, bootVars, raised, closes, sessVars, now, ticks>>

\* ------------------------------------------------------- session manager
\* Section 4.1, step 2: a new session is built when the key has no entry or
\* the age of its entry has reached the TTL given at line 51.
NeedsBuildAlways(entry, t) == TRUE
NeedsBuildMutant(entry, t) == ~entry.present \/ t - entry.ts > SESSION_TTL
NeedsBuild(entry, t) == ~entry.present \/ t - entry.ts >= SESSION_TTL

\* Section 4.1, edge cases: a failed construction is not cached.
StoreOnFailureMutant(entry, t) ==
  [present |-> TRUE, handle |-> NoHandle, ts |-> t]
StoreOnFailure(entry, t) == entry

\* Section 4.1, step 2: the entry is stored under its key.
StoreMutant(map, k, entry) ==
  [kk \in DOMAIN map |-> IF kk = k THEN entry ELSE NoEntry]
Store(map, k, entry) == [map EXCEPT ![k] = entry]

\* Section 4.1, steps 1-3, as called at lines 137, 362 and 392-393.
\* `constructed` is the outcome of the session constructor when it is run.
create_or_get(site, constructed) ==
  LET k == SessionKey(site)
      e == sessions[k]
      h == [id |-> next_id, use_http |-> site.use_http, check |-> site.check]
      rec(outcome, handle) ==
        [fn |-> site.fn, key |-> k, at |-> now, outcome |-> outcome,
         handle |-> handle]
  IN IF NeedsBuild(e, now)
       THEN IF constructed
              THEN /\ sessions' = Store(sessions, k,
                                     [present |-> TRUE, handle |-> h,
                                      ts |-> now])
                   /\ next_id' = next_id + 1
                   /\ calls' = Append(calls, rec("created", h))
              ELSE /\ sessions' = Store(sessions, k,
                                     StoreOnFailure(e, now))
                   /\ calls' = Append(calls, rec("raised", NoHandle))
                   /\ next_id' = next_id
       ELSE /\ calls' = Append(calls, rec("reused", e.handle))
            /\ UNCHANGED <<sessions, next_id>>

Site(fn) == CHOOSE s \in CallSites : s.fn = fn

\* Lines 89-90: the endpoints receive app.state.session_manager.
get_session_manager == app_state.session_manager

Endpoint(fn, constructed) ==
  /\ pc = "serving"
  /\ get_session_manager
  /\ Len(calls) < MaxCalls
  /\ create_or_get(Site(fn), constructed)
  /\ UNCHANGED <<pc, bootVars, raised, app_state, report, checks, closes,
                 now, ticks>>

\* Lines 127-138.
crawl_em_stock_history_rank(constructed) ==
  Endpoint("crawl_em_stock_history_rank", constructed)

\* Lines 350-363.
crawl_jyhf_theme(constructed) == Endpoint("crawl_jyhf_theme", constructed)

\* Lines 372-394.
crawl_jyhf_theme_detail(constructed) ==
  Endpoint("crawl_jyhf_theme_detail", constructed)

\* time.time() advances while the application serves.
Tick ==
  /\ pc = "serving"
  /\ ticks < MaxTicks
  /\ now' = now + TickStep
  /\ ticks' = ticks + 1
  /\ UNCHANGED <<pc, bootVars, raised, app_state, report, checks, closes,
                 sessVars>>

\* The whole application.  The endpoints of the session manager and Tick
\* leave the variables of lifespan and /health unchanged, and /health and the
\* shutdown leave the variables of the session manager unchanged, so the
\* properties of each part are checked under its own specification below.
Next ==
  \/ \E built \in BOOLEAN : lifespan_init(built)
  \/ \E pong \in BOOLEAN : lifespan_ping(pong)
  \/ \E connected \in BOOLEAN : pg_attempt(connected)
  \/ pg_exhausted
  \/ lifespan_mount
  \/ \E pong, selected \in BOOLEAN : health_check(pong, selected)
  \/ \E constructed \in BOOLEAN : crawl_em_stock_history_rank(constructed)
  \/ \E constructed \in BOOLEAN : crawl_jyhf_theme(constructed)
  \/ \E constructed \in BOOLEAN : crawl_jyhf_theme_detail(constructed)
  \/ Tick
  \/ \E closed \in BOOLEAN : shutdown_redis(closed)
  \/ \E closed \in BOOLEAN : shutdown_pg(closed)

Spec == Init /\ [][Next]_vars

\* The lifespan with the /health endpoint: bootstrap, health checks, shutdown.
NextLifespan ==
  \/ \E built \in BOOLEAN : lifespan_init(built)
  \/ \E pong \in BOOLEAN : lifespan_ping(pong)
  \/ \E connected \in BOOLEAN : pg_attempt(connected)
  \/ pg_exhausted
  \/ lifespan_mount
  \/ \E pong, selected \in BOOLEAN : health_check(pong, selected)
  \/ \E closed \in BOOLEAN : shutdown_redis(closed)
  \/ \E closed \in BOOLEAN : shutdown_pg(closed)

SpecLifespan == Init /\ [][NextLifespan]_vars

\* The bootstrap followed by the endpoints that use the session manager.
NextSessions ==
  \/ \E built \in BOOLEAN : lifespan_init(built)
  \/ \E pong \in BOOLEAN : lifespan_ping(pong)
  \/ \E connected \in BOOLEAN : pg_attempt(connected)
  \/ pg_exhausted
  \/ lifespan_mount
  \/ \E constructed \in BOOLEAN : crawl_em_stock_history_rank(constructed)
  \/ \E constructed \in BOOLEAN : crawl_jyhf_theme(constructed)
  \/ \E constructed \in BOOLEAN : crawl_jyhf_theme_detail(constructed)
  \/ Tick

SpecSessions == Init /\ [][NextSessions]_vars

\* The statements of lifespan up to the yield run one after the other: a
\* step of the bootstrap that can be taken is taken.
Bootstrap ==
  \/ \E built \in BOOLEAN : lifespan_init(built)
  \/ \E pong \in BOOLEAN : lifespan_ping(pong)
  \/ \E connected \in BOOLEAN : pg_attempt(connected)
  \/ pg_exhausted
  \/ lifespan_mount

SpecLifespanFair == SpecLifespan /\ WF_vars(Bootstrap)

\* The bootstrap followed by the endpoints: /health and the session users.
NextServing ==
  \/ \E built \in BOOLEAN : lifespan_init(built)
  \/ \E pong \in BOOLEAN : lifespan_ping(pong)
  \/ \E connected \in BOOLEAN : pg_attempt(connected)
  \/ pg_exhausted
  \/ lifespan_mount
  \/ \E pong, selected \in BOOLEAN : health_check(pong, selected)
  \/ \E constructed \in BOOLEAN : crawl_em_stock_history_rank(constructed)
  \/ \E constructed \in BOOLEAN : crawl_jyhf_theme(constructed)
  \/ \E constructed \in BOOLEAN : crawl_jyhf_theme_detail(constructed)

SpecServing == Init /\ [][NextServing]_vars

\* The lifespan started under every retry option of the environment.
SpecConfigured == InitConfigured /\ [][NextLifespan]_vars

\* ======================================================== claims, lifespan
Mounted == pc \in {"serving", "close_pg", "done"}

AllAttemptsFailed ==
  /\ Len(attempt_log) = max_retries
  /\ \A i \in 1..Len(attempt_log) : ~attempt_log[i]

\* C1: when every connection attempt to PostgreSQL has failed, lifespan has
\* not raised, the local pg_conn and, once mounted, app.state.pg_conn are
\* None; the connection error is held by last_err only and is never the
\* handle.
C1_RelationalDegrades ==
  /\ pg_conn.kind # "error"
  /\ app_state.pg_conn.kind # "error"
  /\ (AllAttemptsFailed /\ pc # "pg") =>
        /\ raised = "none"
        /\ pc # "crashed"
        /\ pg_conn = None
        /\ last_err = PgError(max_retries)
        /\ Mounted => app_state.pg_conn = None

C1_Witness ==
  /\ AllAttemptsFailed
  /\ pc = "serving"
  /\ app_state.pg_conn = None
  /\ sleeps = max_retries

\* C2: whatever fails for the cache store, building the client or the ping,
\* lifespan does not raise and goes on to the relational store with
\* redis_client either the client or None.
C2_CacheFailureNeverRaises ==
  /\ raised # "startup"
  /\ pc # "crashed"
  /\ pc \in {"pg", "mount", "serving"} => redis_client \in {RedisObj, None}

\* C3: at most max_retries attempts are made, every attempt but the last
\* one failed, and a successful attempt ends the loop with its connection as
\* the handle.
C3_BoundedRetry ==
  LET n == Len(attempt_log) IN
    /\ n <= max_retries
    /\ \A i \in 1..n : i < n => ~attempt_log[i]
    /\ (n > 0 /\ attempt_log[n]) =>
          /\ pc # "pg"
          /\ pg_conn = PgConn(n)
          /\ Mounted => app_state.pg_conn = PgConn(n)

C3_Witness ==
  /\ pc = "serving"
  /\ Len(attempt_log) = 3
  /\ attempt_log[3]
  /\ app_state.pg_conn = PgConn(3)

\* C4: a /health response is 'healthy' exactly when both services are 'up',
\* and a service is 'up' exactly when its handle is live and the probe of
\* this call returned.
C4_HealthComposite ==
  report.status # "none" =>
    /\ report.status = "healthy" <=>
         (report.services.redis = "up" /\ report.services.postgres = "up")
    /\ report.status \in {"healthy", "unhealthy"}
    /\ report.services.redis = "up" <=>
         (IsLive(app_state.redis_client) /\ report.probes.redis = "ok")
    /\ report.services.postgres = "up" <=>
         (IsLive(app_state.pg_conn) /\ report.probes.postgres = "ok")
    /\ report.services.redis \in {"up", "down"}
    /\ report.services.postgres \in {"up", "down"}

C4_Witness ==
  /\ report.status = "unhealthy"
  /\ report.services = [redis |-> "up", postgres |-> "down"]
  /\ IsLive(app_state.pg_conn)

\* C5: /health never answers with an error; a probe that raised marks its
\* own service 'down' only, and the other service is still probed and
\* reported by its own outcome.
C5_HealthNeverRaises ==
  /\ report.status # "error"
  /\ report.status # "none" =>
       /\ report.probes.redis = "raised" => report.services.redis = "down"
       /\ report.probes.postgres = "raised" =>
            report.services.postgres = "down"
       /\ IsLive(app_state.pg_conn) =>
            /\ report.probes.postgres # "none"
            /\ report.probes.postgres = "ok" =>
                 report.services.postgres = "up"
       /\ IsLive(app_state.redis_client) =>
            /\ report.probes.redis # "none"
            /\ report.probes.redis = "ok" => report.services.redis = "up"

C5_Witness ==
  /\ report.probes.redis = "raised"
  /\ report.probes.postgres = "ok"
  /\ report.services = [redis |-> "down", postgres |-> "up"]

\* C6: shutdown never raises, and when it is over a close was attempted on
\* every live handle, whatever the outcome of the other close.
C6_IndependentClose ==
  /\ raised # "shutdown"
  /\ closes.redis = "failed" => pc \in {"close_pg", "done"}
  /\ pc = "done" =>
       /\ IsLive(redis_client) => closes.redis \in {"closed", "failed"}
       /\ IsLive(pg_conn) => closes.postgres \in {"closed", "failed"}

C6_Witness ==
  /\ pc = "done"
  /\ closes.redis = "failed"
  /\ closes.postgres \in {"closed", "failed"}

\* ================================================ claims, session manager
Returned(c) == c.outcome \in {"created", "reused"}

\* The time at which the session returned by call i was constructed.
BuiltAt(i) ==
  LET j == CHOOSE j \in 1..i :
             calls[j].outcome = "created" /\ calls[j].handle = calls[i].handle
  IN calls[j].at

Builders(h) ==
  { j \in 1..Len(calls) : calls[j].outcome = "created" /\ calls[j].handle = h }

\* A create_or_get step for key k.
CallOn(k) ==
  /\ Len(calls') = Len(calls) + 1
  /\ calls'[Len(calls')].key = k

\* C8: as long as the entry of a key has not reached the TTL, every call for
\* the key returns the session of the earlier calls, and that session was
\* constructed by exactly one call.
C8_IdempotentReuse ==
  \A i \in 1..Len(calls) :
    Returned(calls[i]) =>
      /\ calls[i].handle # NoHandle
      /\ Cardinality(Builders(calls[i].handle)) = 1
      /\ \E b \in Builders(calls[i].handle) : b <= i
      /\ \A j \in (i + 1)..Len(calls) :
           (calls[j].key = calls[i].key /\
            calls[j].at - BuiltAt(i) < SESSION_TTL) =>
              /\ calls[j].outcome = "reused"
              /\ calls[j].handle = calls[i].handle

C8_Witness ==
  /\ Len(calls) = 3
  /\ calls[1].outcome = "created"
  /\ calls[2].outcome = "reused"
  /\ calls[3].outcome = "reused"
  /\ calls[3].handle = calls[1].handle
  /\ calls[3].at > calls[1].at

\* C9, one step: a call for a key whose entry has reached the TTL runs the
\* constructor and, when that returns, stores the new session with the
\* current time; an entry changes only in a call for its key that finds it
\* absent or expired.
C9_Step ==
  \A k \in Keys :
    /\ (CallOn(k) /\ sessions[k].present /\
        now - sessions[k].ts >= SESSION_TTL) =>
          LET c == calls'[Len(calls')] IN
            /\ c.outcome \in {"created", "raised"}
            /\ c.outcome = "created" =>
                 /\ sessions'[k] =
                      [present |-> TRUE, handle |-> c.handle, ts |-> now]
                 /\ c.handle.id # sessions[k].handle.id
    /\ sessions'[k] # sessions[k] =>
          /\ CallOn(k)
          /\ ~sessions[k].present \/ now - sessions[k].ts >= SESSION_TTL

\* C9, history: a session is not returned once its age has reached the TTL.
C9_NoStaleReturn ==
  \A i \in 1..Len(calls) : \A j \in (i + 1)..Len(calls) :
    (Returned(calls[i]) /\ Returned(calls[j]) /\
     calls[j].key = calls[i].key /\
     calls[j].at - BuiltAt(i) >= SESSION_TTL) =>
       calls[j].handle # calls[i].handle

\* C9: expiry replaces the entry at the next call, and only then.
C9_ExpiryReplaces == [][C9_Step]_vars /\ []C9_NoStaleReturn

C9_Witness ==
  /\ Len(calls) = 3
  /\ calls[1].outcome = "created"
  /\ calls[2].outcome = "created"
  /\ calls[2].key = calls[1].key
  /\ calls[2].at - calls[1].at = SESSION_TTL
  /\ calls[3].outcome = "reused"
  /\ calls[3].handle = calls[2].handle
  /\ sessions[calls[1].key].ts = calls[2].at

\* C10, one step: a call whose constructor raised returns no session and
\* leaves the whole mapping as it was.
C10_Step ==
  (Len(calls') = Len(calls) + 1 /\ calls'[Len(calls')].outcome = "raised") =>
     /\ sessions' = sessions
     /\ calls'[Len(calls')].handle = NoHandle

\* C10, history: the call for a key that follows a failed construction runs
\* the constructor again.
C10_Retried ==
  \A i \in 1..Len(calls) : \A j \in (i + 1)..Len(calls) :
    (calls[i].outcome = "raised" /\ calls[j].key = calls[i].key /\
     \A m \in (i + 1)..(j - 1) : calls[m].key # calls[i].key) =>
       calls[j].outcome \in {"created", "raised"}

\* C10: a failed construction is propagated and never cached.
C10_FailureNotCached == [][C10_Step]_vars /\ []C10_Retried

C10_Witness ==
  /\ Len(calls) >= 2
  /\ calls[1].outcome = "raised"
  /\ calls[2].key = calls[1].key
  /\ calls[2].outcome = "created"
  /\ \E k \in Keys : k # calls[1].key /\ ~sessions[k].present

\* C11: a create_or_get call for one key, whether it creates, replaces an
\* expired entry, reuses or fails, leaves the entry of every other key as it
\* was.
C11_PerKeyIsolation ==
  [][\A k \in Keys : CallOn(k) =>
       \A other \in Keys \ {k} : sessions'[other] = sessions[other]]_vars

\* A key was rebuilt after expiry while the entry of another key, created
\* before, is still the one stored.
C11_Witness ==
  /\ Len(calls) = 3
  /\ calls[1].outcome = "created"
  /\ calls[2].outcome = "created"
  /\ calls[2].key # calls[1].key
  /\ calls[3].outcome = "created"
  /\ calls[3].key = calls[1].key
  /\ sessions[calls[2].key].handle = calls[2].handle
  /\ sessions[calls[2].key].ts = calls[2].at

\* C12: when PostgreSQL is never reachable, the number of connection
\* attempts is the retry count given in the environment, and 10 when none is
\* given.
C12_ConfiguredRetries ==
  (pc # "pg" /\ Len(attempt_log) > 0 /\
   \A i \in 1..Len(attempt_log) : ~attempt_log[i]) =>
     Len(attempt_log) = (IF retry_option = 0 THEN 10 ELSE retry_option)

\* C13: app.state is written by the mount step only and the handles of
\* lifespan do not change once mounted; close() is called at shutdown only,
\* on a live handle that was not closed before; when shutdown is over, the
\* handles that were closed are exactly the live ones.
C13_Step ==
  /\ app_state' # app_state => pc = "mount"
  /\ Mounted => (redis_client' = redis_client /\ pg_conn' = pg_conn)
  /\ closes'.redis # closes.redis =>
       (pc = "serving" /\ closes.redis = "none" /\ IsLive(redis_client))
  /\ closes'.postgres # closes.postgres =>
       (pc = "close_pg" /\ closes.postgres = "none" /\ IsLive(pg_conn))

C13_AllClosed ==
  /\ pc \in {"init", "ping", "pg", "mount", "serving"} =>
       closes = [redis |-> "none", postgres |-> "none"]
  /\ pc = "done" =>
       /\ IsLive(redis_client) <=> closes.redis \in {"closed", "failed"}
       /\ IsLive(pg_conn) <=> closes.postgres \in {"closed", "failed"}

C13_ClosedOnceAtShutdown == [][C13_Step]_vars /\ []C13_AllClosed

C13_Witness ==
  /\ pc = "done"
  /\ checks > 0
  /\ redis_client = None
  /\ closes.redis = "none"
  /\ IsLive(pg_conn)
  /\ closes.postgres = "closed"

\* C14: in a /health response a service whose handle is None is 'down' and
\* was not probed; a probe was issued only on a live handle.
C14_NoProbeOnSentinel ==
  report.status # "none" =>
    /\ app_state.redis_client = None =>
         (report.probes.redis = "none" /\ report.services.redis = "down")
    /\ app_state.pg_conn = None =>
         (report.probes.postgres = "none" /\
          report.services.postgres = "down")
    /\ report.probes.redis # "none" => IsLive(app_state.redis_client)
    /\ report.probes.postgres # "none" => IsLive(app_state.pg_conn)

C14_Witness ==
  /\ app_state.redis_client = None
  /\ report.probes = [redis |-> "none", postgres |-> "ok"]
  /\ report.services = [redis |-> "down", postgres |-> "up"]

\* C15: a /health call changes neither the mounted handles nor the session
\* mapping nor the handles of lifespan, and a call whose probes gave what the
\* probes of the previous call gave returns the previous response.
C15_Step ==
  checks' # checks =>
    /\ app_state' = app_state
    /\ sessions' = sessions
    /\ next_id' = next_id
    /\ redis_client' = redis_client
    /\ pg_conn' = pg_conn
    /\ closes' = closes
    /\ (report.status # "none" /\ report'.probes = report.probes) =>
         report' = report

C15_HealthSideEffectFree == [][C15_Step]_vars

C15_Witness ==
  /\ checks = 2
  /\ report.status = "unhealthy"
  /\ report.probes.postgres = "raised"
  /\ \E k \in Keys : sessions[k].present

\* C16, safety part: at most max_retries attempts, one sleep per failed
\* attempt and none after a successful one, and the loop ends without a
\* connection only when every attempt of the budget has failed.
C16_Accounting ==
  /\ Len(attempt_log) <= max_retries
  /\ sleeps = Cardinality({i \in 1..Len(attempt_log) : ~attempt_log[i]})
  /\ (pc \in {"mount", "serving", "close_pg", "done"} /\ pg_conn = None) =>
        AllAttemptsFailed

\* C16: whatever the connect and probe outcomes, lifespan reaches the
\* serving state, with the accounting above.
C16_BootstrapTerminates == <>(pc = "serving") /\ []C16_Accounting

\* C17: the endpoints run only in the serving state, where app.state holds
\* the two handles of lifespan and the session manager, whatever the handles
\* are; until then no endpoint has run and the session mapping is empty; the
\* bootstrap is not entered again.
C17_State ==
  /\ pc \in {"init", "ping", "pg", "mount", "crashed"} =>
       /\ checks = 0
       /\ calls = <<>>
       /\ report = NoReport
       /\ \A k \in Keys : sessions[k] = NoEntry
  /\ pc = "serving" =>
       /\ app_state = [redis_client |-> redis_client, pg_conn |-> pg_conn,
                       session_manager |-> TRUE]
       /\ redis_client \in {RedisObj, None}
       /\ pg_conn.kind \in {"pg_conn", "None"}

C17_BootstrapBeforeRequests ==
  []C17_State /\ [][pc = "serving" => pc' \notin {"init", "ping", "pg", "mount"}]_vars

C17_Witness ==
  /\ pc = "serving"
  /\ app_state.redis_client = None
  /\ app_state.pg_conn = None
  /\ checks > 0
  /\ Len(calls) > 0
  /\ calls[1].outcome = "created"

\* C18: a session returned by create_or_get was constructed with the
\* use_http and check arguments of the call that receives it.
C18_VariantRespected ==
  \A i \in 1..Len(calls) :
    Returned(calls[i]) =>
      /\ calls[i].handle.use_http = Site(calls[i].fn).use_http
      /\ calls[i].handle.check = Site(calls[i].fn).check

\* C19: once mounted, app.state keeps its handles, and a service whose
\* handle is None is reported 'down', with the status 'unhealthy', by every
\* /health call, whatever the probes would give.
C19_State ==
  (Mounted /\ report.status # "none") =>
     /\ app_state.redis_client = None =>
          (report.services.redis = "down" /\ report.status = "unhealthy")
     /\ app_state.pg_conn = None =>
          (report.services.postgres = "down" /\ report.status = "unhealthy")

C19_DegradationPermanent ==
  []C19_State /\ [][Mounted => app_state' = app_state]_vars

C19_Witness ==
  /\ app_state.pg_conn = None
  /\ checks = 2
  /\ report.probes.redis = "ok"
  /\ report.services = [redis |-> "up", postgres |-> "down"]
  /\ report.status = "unhealthy"

====
